---- MODULE Spec2Model ----
(***************************************************************************)
(* Model of PolarsParquetReader (src/scripts/polars_parquet_reader.py) and *)
(* of the FileSystem operations it calls (src/scripts/file_system.py).     *)
(*                                                                         *)
(* Two specifications share the module:                                     *)
(*   Spec          one write_parquet call over a local target path;        *)
(*   SpecSanitize  the empty-struct sanitizer applied to tables whose      *)
(*                 columns have nested types.                               *)
(***************************************************************************)
EXTENDS Integers, Sequences, FiniteSets, TLC

VARIABLES
    fs,                 \* storage: the target path and its ancestors
    fs0,                \* storage as it was when write_parquet was called
    pc,                 \* position inside write_parquet
    df,                 \* argument: the incoming frame
    upsert_key,         \* argument
    partition_cols,     \* argument
    overwrite_level,    \* argument ("none" for None)
    has_existing_data,  \* local of write_parquet
    schemas_match,      \* local of write_parquet
    lazy_df,            \* local of write_parquet
    df_to_write,        \* local of write_parquet
    handed,             \* the collected frame handed to the materializer
    result,             \* "none" while running, "ok", or the exception raised
    log,                \* the storage operations issued so far, in order
    sanIn,      \* SpecSanitize: the table first given to the sanitizer
    sanDf,      \* SpecSanitize: the table the sanitizer is applied to
    sanPrev,    \* SpecSanitize: the table before the last application
    sanPasses   \* SpecSanitize: number of applications so far

sanVars == <<sanIn, sanDf, sanPrev, sanPasses>>

writeVars == <<fs, fs0, pc, df, upsert_key, partition_cols, overwrite_level,
               has_existing_data, schemas_match, lazy_df, df_to_write, handed,
               result, log>>

vars == <<writeVars, sanVars>>

(***************************************************************************)
(* Bounds.                                                                 *)
(***************************************************************************)
MaxDepth == 2
MaxPasses == 2
MaxOldRows == 2
MaxNewRows == 2

(***************************************************************************)
(* Data types (polars dtypes).  A dtype is a record [k, sub]: k is the     *)
(* kind, sub the named children: none for a primitive, the one element     *)
(* type for a List, the fields in order for a Struct.                      *)
(***************************************************************************)
Prim(kind) == [k |-> kind, sub |-> <<>>]

ListOf(inner) == [k |-> "List", sub |-> << <<"item", inner>> >>]

StructOf(fields) == [k |-> "Struct", sub |-> fields]

\* Python's None, returned in place of a dtype for an empty branch.
None == [k |-> "None", sub |-> <<>>]

\* A null value (or a column of nulls) of no particular shape.
NullValue == [k |-> "Null", sub |-> <<>>]

(***************************************************************************)
(* __remove_empty_structs: the pair (new_schema, is_empty).                *)
(***************************************************************************)
RECURSIVE remove_empty_structs(_)
RECURSIVE struct_new_fields(_)
RECURSIVE remove_empty_structs_keeps_drained(_)
RECURSIVE drained_new_fields(_)

drained_new_fields(fields) ==
    IF fields = <<>> THEN <<>>
    ELSE LET field == Head(fields)
             res   == remove_empty_structs_keeps_drained(field[2])
             rest  == drained_new_fields(Tail(fields))
         IN  IF res.is_empty THEN rest
             ELSE << <<field[1], res.type>> >> \o rest

\* __remove_empty_structs without the `if all_empty` return: a struct that
\* lost every field comes back as a zero-field struct reported non-empty.
remove_empty_structs_keeps_drained(schema) ==
    IF schema.k = "List" THEN
        LET inner == remove_empty_structs_keeps_drained(schema.sub[1][2])
        IN  IF inner.is_empty
            THEN [type |-> None, is_empty |-> TRUE]
            ELSE [type |-> ListOf(inner.type), is_empty |-> FALSE]
    ELSE IF schema.k = "Struct" THEN
        IF schema.sub = <<>>
        THEN [type |-> None, is_empty |-> TRUE]
        ELSE [type |-> StructOf(drained_new_fields(schema.sub)), is_empty |-> FALSE]
    ELSE [type |-> schema, is_empty |-> FALSE]

\* The loop over schema.fields: the fields whose sanitized type is not
\* empty, in their original order, each with its sanitized type.
struct_new_fields(fields) ==
    IF fields = <<>> THEN <<>>
    ELSE LET field == Head(fields)
             res   == remove_empty_structs(field[2])
             rest  == struct_new_fields(Tail(fields))
         IN  IF res.is_empty THEN rest
             ELSE << <<field[1], res.type>> >> \o rest

remove_empty_structs(schema) ==
    IF schema.k = "List" THEN
        LET inner == remove_empty_structs(schema.sub[1][2])
        IN  IF inner.is_empty
            THEN [type |-> None, is_empty |-> TRUE]
            ELSE [type |-> ListOf(inner.type), is_empty |-> FALSE]
    ELSE IF schema.k = "Struct" THEN
        IF schema.sub = <<>>
        THEN [type |-> None, is_empty |-> TRUE]
        ELSE LET new_fields == struct_new_fields(schema.sub)
             IN  IF new_fields = <<>>
                 THEN [type |-> None, is_empty |-> TRUE]
                 ELSE [type |-> StructOf(new_fields), is_empty |-> FALSE]
    ELSE [type |-> schema, is_empty |-> FALSE]

(***************************************************************************)
(* pl.col(c).cast(dtype) on the values of a column.  A value is described  *)
(* by its shape, a tree like a dtype; casting to a Struct keeps the fields *)
(* the target names, by name, casting to a List casts the elements.        *)
(***************************************************************************)
RECURSIVE cast_value(_, _)
RECURSIVE cast_fields(_, _)

FieldValue(val, name) ==
    IF val.k = "Struct" /\ \E i \in 1..Len(val.sub) : val.sub[i][1] = name
    THEN val.sub[CHOOSE i \in 1..Len(val.sub) : val.sub[i][1] = name][2]
    ELSE NullValue

cast_fields(val, fields) ==
    IF fields = <<>> THEN <<>>
    ELSE << <<Head(fields)[1],
              cast_value(FieldValue(val, Head(fields)[1]), Head(fields)[2])>> >>
         \o cast_fields(val, Tail(fields))

cast_value(val, dtype) ==
    IF dtype.k = "Struct" THEN StructOf(cast_fields(val, dtype.sub))
    ELSE IF dtype.k = "List" THEN
        IF val.k = "List"
        THEN ListOf(cast_value(val.sub[1][2], dtype.sub[1][2]))
        ELSE NullValue
    ELSE Prim(dtype.k)

(***************************************************************************)
(* __transform_data_removing_empty_structs.  A frame is [schema, data]:    *)
(* two sequences of <<column, dtype>> and <<column, shape of the values>>. *)
(* A column whose type is empty is skipped by the analysis loop (the       *)
(* `continue`): it is not recast, and nothing drops it from the frame.     *)
(***************************************************************************)
columns_to_transform(frame) ==
    { i \in 1..Len(frame.schema) :
        LET res == remove_empty_structs(frame.schema[i][2])
        IN  ~res.is_empty /\ res.type # frame.schema[i][2] }

transform_data_removing_empty_structs(frame) ==
    LET todo == columns_to_transform(frame)
        new_type(i) == remove_empty_structs(frame.schema[i][2]).type
    IN  [schema |-> [i \in 1..Len(frame.schema) |->
                        IF i \in todo
                        THEN <<frame.schema[i][1], new_type(i)>>
                        ELSE frame.schema[i]],
         data   |-> [i \in 1..Len(frame.data) |->
                        IF i \in todo
                        THEN <<frame.data[i][1], cast_value(frame.data[i][2], new_type(i))>>
                        ELSE frame.data[i]]]

(***************************************************************************)
(* The dtypes of nesting depth at most d over one primitive, List, and     *)
(* Structs of zero, one or two fields.                                     *)
(***************************************************************************)
RECURSIVE TypesOfDepth(_)
TypesOfDepth(d) ==
    IF d = 0 THEN {Prim("Int64"), StructOf(<<>>)}
    ELSE LET S == TypesOfDepth(d - 1)
         IN  S \cup {ListOf(t) : t \in S}
               \cup {StructOf(<< <<"a", t>> >>) : t \in S}
               \cup {StructOf(<< <<"a", t[1]>>, <<"b", t[2]>> >>) : t \in S \X S}

\* A frame with a primitive column and a column of the given dtype; the
\* values have the shape the dtype describes.
FrameWith(dtype) ==
    [schema |-> << <<"id", Prim("Int64")>>, <<"meta", dtype>> >>,
     data   |-> << <<"id", Prim("Int64")>>, <<"meta", dtype>> >>]

SanFrames == {FrameWith(t) : t \in TypesOfDepth(MaxDepth)}

(***************************************************************************)
(* Frames of the write path.  Every frame has the columns id (Int64, the   *)
(* upsert key) and p (String, the partition column) and may have a value   *)
(* column v, Int64 or String.  A row is [id, p, v]; v is [t, n]: t the     *)
(* dtype of the column the value sits in ("none" when the row has no       *)
(* column v) and n the number it holds or spells, 0 for null.  Frames and   *)
(* datasets are compared as sets of rows.                                  *)
(***************************************************************************)
Ids == 1..2
Parts == {"US", "EU"}
Vals == 1..2

NoColumn == [t |-> "none", n |-> 0]

Null(vt) == [t |-> vt, n |-> 0]

\* The schema of a frame whose column v has dtype vt ("none": no column v).
SchemaWith(vt) ==
    << <<"id", Prim("Int64")>>, <<"p", Prim("String")>> >>
    \o (IF vt = "none" THEN <<>> ELSE << <<"v", Prim(vt)>> >>)

HasColumn(schema, name) == \E i \in 1..Len(schema) : schema[i][1] = name

DTypeOf(schema, name) ==
    schema[CHOOSE i \in 1..Len(schema) : schema[i][1] = name][2]

VType(schema) == IF HasColumn(schema, "v") THEN DTypeOf(schema, "v").k ELSE "none"

RowsOf(vt) ==
    IF vt = "none"
    THEN {[id |-> i, p |-> q, v |-> NoColumn] : i \in Ids, q \in Parts}
    ELSE {[id |-> i, p |-> q, v |-> [t |-> vt, n |-> x]] :
            i \in Ids, q \in Parts, x \in Vals}

RowSets(vt, max) == {S \in SUBSET RowsOf(vt) : Cardinality(S) \in 1..max}

Frame(vt, rows) == [schema |-> SchemaWith(vt), rows |-> rows]

\* The frames a caller passes as df.
IncomingFrames ==
    {Frame(vt, rows) : vt \in {"Int64"}, rows \in RowSets("Int64", MaxNewRows)}
    \cup {Frame(vt, rows) : vt \in {"String"}, rows \in RowSets("String", MaxNewRows)}
    \cup {Frame(vt, rows) : vt \in {"none"}, rows \in RowSets("none", MaxNewRows)}

(***************************************************************************)
(* Storage (FileSystem on a local path).  node is what sits at the target  *)
(* path: nothing, a file that is not parquet, a parquet file, or a         *)
(* directory holding one sub-directory p=<value> per partition that has    *)
(* rows.  rows are the rows stored under the path; parent and grand tell   *)
(* whether the directory holding the path, and the one above, exist.       *)
(***************************************************************************)
Storage(node, rows, parent, grand) ==
    [node |-> node, rows |-> rows, parent |-> parent, grand |-> grand]

ExistingRowSets ==
    RowSets("Int64", MaxOldRows) \cup RowSets("none", MaxOldRows)

InitialStorage ==
    {Storage("absent", {}, a[1], a[2]) :
        a \in {<<TRUE, TRUE>>, <<FALSE, TRUE>>, <<FALSE, FALSE>>}}
    \cup {Storage("badfile", {}, TRUE, TRUE), Storage("dir", {}, TRUE, TRUE)}
    \cup {Storage(n, rows, TRUE, TRUE) : n \in {"file", "dir"}, rows \in ExistingRowSets}

Ev(op, at) == [op |-> op, at |-> at]

\* A probe of the partition directory that never finds it.
partition_exists_never(f, q) == FALSE

\* FileSystem.exists on the target path / on a partition directory.
exists(f) == f.node # "absent"

partition_exists(f, q) == f.node = "dir" /\ \E r \in f.rows : r.p = q

\* FileSystem.getdir: the path itself when it is a directory, else its parent.
getdir(f) == IF f.node = "dir" THEN "path" ELSE "parent"

\* remove_dir that leaves the path in place.
remove_dir_leaves_path(f) == f

\* FileSystem.remove_dir on the target path: a directory is emptied and
\* removed, a file is removed, a missing path is left alone.
remove_dir(f) == [f EXCEPT !.node = "absent", !.rows = {}]

\* remove_dir given the dataset path in place of the partition path.
remove_partition_dir_takes_all(f, q) == [f EXCEPT !.rows = {}]

\* FileSystem.remove_dir on the directory of partition q.
remove_partition_dir(f, q) == [f EXCEPT !.rows = {r \in f.rows : r.p # q}]

\* FileSystem.mkdir(currentDir) with currentDir the parent of the path:
\* os.mkdir(os.path.dirname(currentDir)) makes the directory ABOVE the one
\* asked for, and raises FileExistsError when that one exists.
mkdir_raises(f) == f.grand

mkdir(f) == [f EXCEPT !.grand = TRUE]

(***************************************************************************)
(* Table engine (polars).                                                  *)
(***************************************************************************)
\* scan_parquet(path).collect_schema() raises ComputeError unless the path
\* holds parquet data (write_parquet's own probe relies on it).
readable(f) == f.node \in {"file", "dir"} /\ f.rows # {}

stored_vtype(rows) ==
    IF \E r \in rows : r.v.t # "none"
    THEN (CHOOSE r \in rows : r.v.t # "none").v.t
    ELSE "none"

\* scan_parquet(path): the frame stored at the path.
scan_parquet(f) == Frame(stored_vtype(f.rows), f.rows)

\* pl.col("v").cast(dtype) on one value: an Int64 is spelled out, a String
\* of digits is parsed; null stays null.
cast_v(v, vt) == [t |-> vt, n |-> v.n]

\* lazy_df.with_columns([pl.col(name).cast(dtype) for name, dtype in
\* existing_schema.items()]): fails when lazy_df lacks one of the columns.
can_adjust(frame, existing_schema) ==
    \A i \in 1..Len(existing_schema) : HasColumn(frame.schema, existing_schema[i][1])

adjust(frame, existing_schema) ==
    [schema |-> [i \in 1..Len(frame.schema) |->
                    IF HasColumn(existing_schema, frame.schema[i][1])
                    THEN <<frame.schema[i][1],
                           DTypeOf(existing_schema, frame.schema[i][1])>>
                    ELSE frame.schema[i]],
     rows   |-> {[r EXCEPT !.v = IF HasColumn(existing_schema, "v")
                                 THEN cast_v(r.v, VType(existing_schema))
                                 ELSE r.v] : r \in frame.rows}]

\* The common supertype pl.concat(how="diagonal_relaxed") gives a column.
supertype(a, b) ==
    IF a = "none" THEN b
    ELSE IF b = "none" \/ a = b THEN a
    ELSE "String"

\* A row brought to a frame whose column v has dtype vt: a missing column
\* is filled with null, a value of another dtype is cast.
pad_row(r, vt) ==
    IF vt = "none" THEN r
    ELSE IF r.v.t = "none" THEN [r EXCEPT !.v = Null(vt)]
    ELSE [r EXCEPT !.v = cast_v(r.v, vt)]

\* pl.concat([a, b], how="diagonal_relaxed")
concat_diagonal(a, b) ==
    LET vt == supertype(VType(a.schema), VType(b.schema))
    IN  Frame(vt, {pad_row(r, vt) : r \in a.rows \cup b.rows})

\* The join without how="anti" filtering anything out of the left side.
anti_join_keeps_all(left, right) == left

\* left.join(right, on=upsert_key, how="anti") with upsert_key = ["id"]
anti_join(left, right) ==
    [left EXCEPT !.rows = {r \in left.rows : \A x \in right.rows : x.id # r.id}]

\* lazy_df.select(partition_cols).unique().collect().rows()
partitions_affected(frame) == {r.p : r \in frame.rows}

\* df_existing.join(partitions_affected_df, on=partition_cols)
join_partitions(frame, parts) ==
    [frame EXCEPT !.rows = {r \in frame.rows : r.p \in parts}]

\* The orders in which the rows of unique() may come.
Orders(S) ==
    {o \in [1..Cardinality(S) -> S] : \A i, j \in DOMAIN o : i # j => o[i] # o[j]}

(***************************************************************************)
(* __remove_partitions: for each affected partition, probe its directory   *)
(* and remove it when it exists.  Yields the storage and the operations.   *)
(***************************************************************************)
RECURSIVE remove_partitions(_, _)
remove_partitions(f, order) ==
    IF order = <<>> THEN [fs |-> f, ev |-> <<>>]
    ELSE LET q    == Head(order)
             there == partition_exists(f, q)
             rest == remove_partitions(IF there THEN remove_partition_dir(f, q) ELSE f,
                                       Tail(order))
         IN  [fs |-> rest.fs,
              ev |-> <<Ev("exists", q)>>
                     \o (IF there THEN <<Ev("remove_dir", q)>> ELSE <<>>)
                     \o rest.ev]

\* __check_path_suffix followed by pl.scan_parquet: one directory listing.
scan_events == <<Ev("listdir", "path")>>

(***************************************************************************)
(* write_parquet, in four steps.                                           *)
(***************************************************************************)
NoFrame == Frame("none", {})

sanIdle == 
    /\ sanIn = FrameWith(Prim("Int64"))
    /\ sanDf = sanIn
    /\ sanPrev = sanIn
    /\ sanPasses = 0

writeIdle ==
    /\ pc = "idle"
    /\ df = NoFrame
    /\ upsert_key = <<>>
    /\ partition_cols = <<>>
    /\ overwrite_level = "none"
    /\ has_existing_data = FALSE
    /\ schemas_match = FALSE
    /\ lazy_df = NoFrame
    /\ df_to_write = NoFrame
    /\ handed = NoFrame
    /\ result = "none"
    /\ log = <<>>

Init ==
    /\ fs \in InitialStorage
    /\ fs0 = fs
    /\ writeIdle
    /\ sanIdle

\* Lines 160-177: the call, the probe of the existing data and of the
\* directory that is to hold the path.
Probe ==
    /\ pc = "idle"
    /\ df' \in IncomingFrames
    /\ upsert_key' \in {<<>>, <<"id">>}
    /\ partition_cols' \in {<<>>, <<"p">>}
    /\ overwrite_level' \in {"none", "full", "partition"}
    /\ lazy_df' = df'
    /\ df_to_write' = df'
    /\ IF exists(fs) THEN
           IF readable(fs) THEN
               \* the schema loads; getdir and exists(currentDir) follow
               /\ has_existing_data' = TRUE
               /\ fs' = fs
               /\ log' = <<Ev("exists", "path")>> \o scan_events
                         \o <<Ev("collect_schema", "path"), Ev("getdir", "path"),
                              Ev("exists", getdir(fs))>>
               /\ pc' = "reconcile"
               /\ result' = "none"
           ELSE
               \* ComputeError: the path is removed
               /\ has_existing_data' = FALSE
               /\ fs' = remove_dir(fs)
               /\ log' = <<Ev("exists", "path")>> \o scan_events
                         \o <<Ev("collect_schema", "path"), Ev("remove_dir", "path")>>
               /\ pc' = "write"
               /\ result' = "none"
       ELSE
           /\ has_existing_data' = FALSE
           /\ IF fs.parent THEN
                  /\ fs' = fs
                  /\ log' = <<Ev("exists", "path"), Ev("getdir", "path"),
                              Ev("exists", "parent")>>
                  /\ pc' = "write"
                  /\ result' = "none"
              ELSE IF mkdir_raises(fs) THEN
                  \* FileExistsError is not caught by the except clause
                  /\ fs' = fs
                  /\ log' = <<Ev("exists", "path"), Ev("getdir", "path"),
                              Ev("exists", "parent"), Ev("mkdir", "parent")>>
                  /\ pc' = "done"
                  /\ result' = "FileExistsError"
              ELSE
                  /\ fs' = mkdir(fs)
                  /\ log' = <<Ev("exists", "path"), Ev("getdir", "path"),
                              Ev("exists", "parent"), Ev("mkdir", "parent")>>
                  /\ pc' = "write"
                  /\ result' = "none"
    /\ UNCHANGED <<fs0, schemas_match, handed, sanVars>>

\* Lines 178-201: the schemas are compared and the incoming frame is cast
\* to the existing column types when that is possible.
Reconcile ==
    /\ pc = "reconcile"
    /\ LET df_existing_schema == scan_parquet(fs).schema
       IN  IF df_existing_schema = lazy_df.schema THEN
               /\ schemas_match' = TRUE
               /\ lazy_df' = lazy_df
           ELSE IF can_adjust(lazy_df, df_existing_schema) THEN
               /\ lazy_df' = adjust(lazy_df, df_existing_schema)
               /\ schemas_match' = (df_existing_schema = lazy_df'.schema)
           ELSE
               /\ schemas_match' = FALSE
               /\ lazy_df' = lazy_df
    /\ log' = log \o scan_events \o <<Ev("collect_schema", "path")>>
    /\ pc' = "dispatch"
    /\ UNCHANGED <<fs, fs0, df, upsert_key, partition_cols, overwrite_level,
                   has_existing_data, df_to_write, handed, result, sanVars>>

\* A full overwrite that scans the path again after removing it.
DispatchFull_rescans ==
    /\ pc = "dispatch"
    /\ overwrite_level = "full"
    /\ fs' = remove_dir(fs)
    /\ log' = Append(log, Ev("remove_dir", "path")) \o scan_events
    /\ df_to_write' = lazy_df
    /\ pc' = "write"
    /\ UNCHANGED <<result, fs0, df, upsert_key, partition_cols, overwrite_level,
                   has_existing_data, schemas_match, lazy_df, handed, sanVars>>

\* What no branch of the dispatch assigns.
dispatch_keeps ==
    UNCHANGED <<fs0, df, upsert_key, partition_cols, overwrite_level,
                has_existing_data, schemas_match, lazy_df, handed, sanVars>>

\* Lines 203-206
DispatchFull ==
    /\ pc = "dispatch"
    /\ dispatch_keeps
    /\ overwrite_level = "full"
    /\ fs' = remove_dir(fs)
    /\ log' = Append(log, Ev("remove_dir", "path"))
    /\ df_to_write' = lazy_df
    /\ pc' = "write"
    /\ UNCHANGED result

\* Lines 207-236
DispatchPartition ==
    /\ pc = "dispatch"
    /\ dispatch_keeps
    /\ overwrite_level = "partition"
    /\ IF partition_cols = <<>> THEN
           /\ result' = "ValueError"
           /\ pc' = "done"
           /\ UNCHANGED <<fs, log, df_to_write>>
       ELSE
           \E order \in Orders(partitions_affected(lazy_df)) :
               LET removed == remove_partitions(fs, order)
                   rescan  == log \o removed.ev \o scan_events
               IN  IF schemas_match THEN
                       /\ df_to_write' = lazy_df
                       /\ fs' = removed.fs
                       /\ log' = rescan
                       /\ pc' = "write"
                       /\ UNCHANGED result
                   ELSE IF readable(removed.fs) THEN
                       \* the whole dataset is rewritten
                       /\ df_to_write' = concat_diagonal(lazy_df, scan_parquet(removed.fs))
                       /\ fs' = remove_dir(removed.fs)
                       /\ log' = rescan \o <<Ev("collect", "path"), Ev("remove_dir", "path")>>
                       /\ pc' = "write"
                       /\ UNCHANGED result
                   ELSE
                       \* nothing is left to collect: ComputeError
                       /\ fs' = removed.fs
                       /\ log' = rescan \o <<Ev("collect", "path")>>
                       /\ result' = "ComputeError"
                       /\ pc' = "done"
                       /\ UNCHANGED df_to_write

\* Lines 237-276
DispatchUpsert ==
    /\ pc = "dispatch"
    /\ dispatch_keeps
    /\ overwrite_level = "none"
    /\ upsert_key # <<>>
    /\ IF partition_cols # <<>> /\ schemas_match THEN
           \E order \in Orders(partitions_affected(lazy_df)) :
               LET affected_df == anti_join(join_partitions(scan_parquet(fs),
                                                partitions_affected(lazy_df)),
                                            lazy_df)
                   removed == remove_partitions(fs, order)
               IN  /\ df_to_write' = concat_diagonal(lazy_df, affected_df)
                   /\ fs' = removed.fs
                   /\ log' = Append(log, Ev("collect", "path")) \o removed.ev
       ELSE
           LET unaffected_df == anti_join(scan_parquet(fs), lazy_df)
           IN  /\ df_to_write' = concat_diagonal(lazy_df, unaffected_df)
               /\ fs' = remove_dir(fs)
               /\ log' = log \o <<Ev("collect", "path"), Ev("remove_dir", "path")>>
    /\ pc' = "write"
    /\ UNCHANGED result

\* No overwrite_level and no upsert_key: no branch of the dispatch is taken
\* and df_to_write stays the frame bound at line 177.
DispatchAppend ==
    /\ pc = "dispatch"
    /\ dispatch_keeps
    /\ overwrite_level = "none"
    /\ upsert_key = <<>>
    /\ pc' = "write"
    /\ UNCHANGED <<fs, log, df_to_write, result>>

\* Lines 279-280: the sanitizer runs on the frame and the result is collected.
sanitized(frame) ==
    LET out == transform_data_removing_empty_structs(
                   [schema |-> frame.schema, data |-> frame.schema])
    IN  [schema |-> out.schema, rows |-> frame.rows]

\* pyarrow.parquet.write_to_dataset (partition_cols given) adds files under
\* path/p=<value>/ and needs the path not to be a file;
\* pyarrow.parquet.write_table writes the one file at the path and needs the
\* path not to be a directory and its parent to exist.
write_error(f, cols) ==
    IF cols # <<>>
    THEN IF f.node \in {"file", "badfile"} THEN "OSError" ELSE "ok"
    ELSE IF f.node = "dir" THEN "OSError"
         ELSE IF ~f.parent THEN "FileNotFoundError"
         ELSE "ok"

materialize(f, frame, cols) ==
    IF cols # <<>>
    THEN Storage("dir", f.rows \cup frame.rows, TRUE, TRUE)
    ELSE Storage("file", frame.rows, TRUE, TRUE)

\* Lines 278-299
Materialize ==
    /\ pc = "write"
    /\ handed' = sanitized(df_to_write)
    /\ result' = write_error(fs, partition_cols)
    /\ fs' = IF result' = "ok" THEN materialize(fs, handed', partition_cols) ELSE fs
    /\ log' = Append(log, Ev("write", "path"))
    /\ pc' = "done"
    /\ UNCHANGED <<fs0, df, upsert_key, partition_cols, overwrite_level,
                   has_existing_data, schemas_match, lazy_df, df_to_write, sanVars>>

Next ==
    \/ Probe
    \/ Reconcile
    \/ DispatchFull
    \/ DispatchPartition
    \/ DispatchUpsert
    \/ DispatchAppend
    \/ Materialize

Spec == Init /\ [][Next]_vars

InitSanitize ==
    /\ sanIn \in SanFrames
    /\ sanDf = sanIn
    /\ sanPrev = sanDf
    /\ sanPasses = 0
    /\ fs = Storage("absent", {}, TRUE, TRUE)
    /\ fs0 = fs
    /\ writeIdle

\* One application of the sanitizer, as at write_parquet's hand-off to the
\* materializer (lines 279-280).
Sanitize ==
    /\ sanPasses < MaxPasses
    /\ sanPrev' = sanDf
    /\ sanDf' = transform_data_removing_empty_structs(sanDf)
    /\ sanPasses' = sanPasses + 1
    /\ UNCHANGED <<sanIn, writeVars>>

NextSanitize == Sanitize

SpecSanitize == InitSanitize /\ [][NextSanitize]_vars

(***************************************************************************)
(* Claims about write_parquet (Spec).                                      *)
(***************************************************************************)
Done == pc = "done"

\* The call found a dataset it could read at the path.
OverReadableDataset == readable(fs0)

\* The rows stored for partition q.
StoredIn(f, q) == {r \in f.rows : r.p = q}

Keys(rows) == {r.id : r \in rows}

\* Stored row d carries the values of row x: the same key and partition,
\* and in column v the number x holds, or null when x has no column v.
Carries(d, x) ==
    /\ d.id = x.id
    /\ d.p = x.p
    /\ d.v.n = x.v.n

\* Stored row d is row r unchanged: the same columns with the same values
\* of the same dtype; a column r lacks is missing or null in d.
Unchanged(d, r) ==
    /\ d.id = r.id
    /\ d.p = r.p
    /\ IF r.v.t = "none" THEN d.v.n = 0 ELSE d.v = r.v

UpsertCall == overwrite_level = "none" /\ upsert_key # <<>>

PartitionOverwriteCall == overwrite_level = "partition" /\ partition_cols # <<>>

\* C1: after a completed upsert over a readable dataset, for every key an
\* incoming row carries the dataset holds exactly the incoming rows of that
\* key and no old row of that key, in whatever partition the old row was.
C1_UpsertNewRowWins ==
    (Done /\ result = "ok" /\ UpsertCall /\ OverReadableDataset) =>
        \A d \in fs.rows :
            d.id \in Keys(df.rows) => \E x \in df.rows : Carries(d, x)

\* C2 as stated: after a partition overwrite over a partitioned dataset,
\* every partition on disk that the incoming data does not name holds the
\* same rows, columns and values as before, whether or not the schemas
\* matched.
C2_UntouchedPartitionsIdentical ==
    (Done /\ PartitionOverwriteCall /\ OverReadableDataset /\ fs0.node = "dir") =>
        \A q \in Parts :
            (partition_exists(fs0, q) /\ q \notin partitions_affected(df)) =>
                StoredIn(fs, q) = StoredIn(fs0, q)

\* C2 amended: such a partition is identical when the schemas matched; when
\* they did not and the dataset was rewritten, it holds the same rows with
\* the values they had in their own columns, null in a column that only the
\* incoming data has.
C2_UntouchedPartitionsKept ==
    (Done /\ PartitionOverwriteCall /\ OverReadableDataset /\ fs0.node = "dir") =>
        \A q \in Parts :
            (partition_exists(fs0, q) /\ q \notin partitions_affected(df)) =>
                /\ result = "ok"
                /\ schemas_match => StoredIn(fs, q) = StoredIn(fs0, q)
                /\ \A r \in StoredIn(fs0, q) : \E d \in StoredIn(fs, q) : Unchanged(d, r)
                /\ \A d \in StoredIn(fs, q) : \E r \in StoredIn(fs0, q) : Unchanged(d, r)
                /\ Cardinality(StoredIn(fs, q)) = Cardinality(StoredIn(fs0, q))

\* C2 witness: a rewrite (schemas differ) that left a partition untouched.
C2_Witness ==
    /\ Done /\ PartitionOverwriteCall /\ OverReadableDataset /\ fs0.node = "dir"
    /\ ~schemas_match
    /\ result = "ok"
    /\ \E q \in Parts : partition_exists(fs0, q) /\ q \notin partitions_affected(df)
    /\ \E x \in fs0.rows : \E y \in fs0.rows : x.p # y.p

\* C4: a partition overwrite called without partition columns ends in
\* ValueError, raised before any storage operation, and leaves the storage
\* as it was (stated for a path whose parent directory exists).
C4_ConfigurationErrorBeforeStorage ==
    (Done /\ overwrite_level = "partition" /\ partition_cols = <<>> /\ fs0.parent) =>
        /\ result = "ValueError"
        /\ log = <<>>
        /\ fs = fs0

IsRead(e) == e.op \in {"exists", "listdir", "collect_schema", "collect", "getdir"}

IsDeletion(e) == e.op = "remove_dir"

IsWrite(e) == e.op = "write"

\* C5 as stated: within one call no read of existing state follows a
\* deletion, and no deletion follows the materialization (stated for the
\* calls that raise nothing).
C5_ReadsThenDeletionsThenWrite ==
    result \in {"none", "ok"} =>
        \A i, j \in DOMAIN log :
            i < j => /\ ~(IsDeletion(log[i]) /\ IsRead(log[j]))
                     /\ ~(IsWrite(log[i]) /\ IsDeletion(log[j]))

\* C5 amended: every deletion precedes the materialization, which is the
\* last storage operation of the call, and nothing but the materialization
\* follows a removal of the dataset path itself; reads may follow the
\* removal of a partition directory.
C5_DeletionsThenWrite ==
    \A i, j \in DOMAIN log :
        i < j => /\ ~IsWrite(log[i])
                 /\ log[i] = Ev("remove_dir", "path") => IsWrite(log[j])

\* C5 witness: a completed partition overwrite that removed a partition,
\* then read the dataset again, then wrote.
C5_Witness ==
    /\ Done /\ result = "ok" /\ PartitionOverwriteCall
    /\ \E i, j, k \in DOMAIN log :
          /\ i < j /\ j < k
          /\ IsDeletion(log[i]) /\ log[i].at \in Parts
          /\ IsRead(log[j])
          /\ IsWrite(log[k])

\* The cast of the incoming columns to the existing dtypes fails.
CastFails == ~can_adjust(df, scan_parquet(fs0).schema)

\* C6: when the cast fails during reconciliation the call raises nothing
\* and the dataset has the columns of old and new data together, rows
\* lacking one null-padded (stated for calls that give partition columns
\* whenever they ask for a partition overwrite).
C6_CastFailureFallsBackToUnion ==
    (Done /\ OverReadableDataset /\ CastFails
          /\ (overwrite_level = "partition" => partition_cols # <<>>)) =>
        /\ result = "ok"
        /\ \A d \in fs.rows : d.v.t # "none"

\* C7: a path that exists but cannot be read is removed and treated as
\* absent: nothing is raised, neither reconciliation nor dispatch runs, and
\* the dataset holds exactly the incoming rows, in every mode.
C7_UnreadablePathTreatedAsAbsent ==
    (Done /\ exists(fs0) /\ ~readable(fs0)) =>
        /\ result = "ok"
        /\ ~has_existing_data
        /\ log = <<Ev("exists", "path"), Ev("listdir", "path"),
                   Ev("collect_schema", "path"), Ev("remove_dir", "path"),
                   Ev("write", "path")>>
        /\ handed = df
        /\ fs.rows = df.rows
        /\ fs.node = IF partition_cols # <<>> THEN "dir" ELSE "file"

\* C7 witness: an upsert with partition columns over a file that is not a
\* dataset.
C7_Witness ==
    /\ Done /\ fs0.node = "badfile"
    /\ UpsertCall /\ partition_cols # <<>>
    /\ fs.node = "dir"

\* The call is a whole-dataset upsert.
WholeUpsert == UpsertCall /\ (partition_cols = <<>> \/ ~schemas_match)

Unmatched(r) == r.id \notin Keys(df.rows)

\* C8: after a whole-dataset upsert over a readable dataset the dataset is
\* the incoming rows together with the existing rows whose key matches no
\* incoming row: those survive unchanged, existing rows with a matched key
\* are gone, nothing else appears, and the old path is removed before the
\* merged frame is written.
C8_WholeUpsert ==
    (Done /\ WholeUpsert /\ OverReadableDataset) =>
        /\ result = "ok"
        /\ \A x \in df.rows : \E d \in fs.rows : Carries(d, x)
        /\ \A r \in fs0.rows : Unmatched(r) => \E d \in fs.rows : Unchanged(d, r)
        /\ \A d \in fs.rows :
              IF d.id \in Keys(df.rows)
              THEN \E x \in df.rows : Carries(d, x)
              ELSE \E r \in fs0.rows : Unchanged(d, r)
        /\ Cardinality(fs.rows)
             = Cardinality(df.rows) + Cardinality({r \in fs0.rows : Unmatched(r)})
        /\ \E i, j \in DOMAIN log :
              i < j /\ log[i] = Ev("remove_dir", "path") /\ IsWrite(log[j])

\* C8 witness: one existing row is replaced and another survives.
C8_Witness ==
    /\ Done /\ WholeUpsert /\ OverReadableDataset
    /\ \E r \in fs0.rows : Unmatched(r)
    /\ \E r \in fs0.rows : ~Unmatched(r) /\ r \notin fs.rows

\* C9: after a partition overwrite with matching schemas over a partitioned
\* dataset, every partition the incoming data names had its directory
\* removed before the write when it existed, and holds only the incoming
\* rows of that partition.
C9_PartitionOverwrite ==
    (Done /\ PartitionOverwriteCall /\ OverReadableDataset /\ fs0.node = "dir"
          /\ schemas_match) =>
        /\ result = "ok"
        /\ \A q \in partitions_affected(df) :
              /\ partition_exists(fs0, q) =>
                    \E i, j \in DOMAIN log :
                        i < j /\ log[i] = Ev("remove_dir", q) /\ IsWrite(log[j])
              /\ \A d \in StoredIn(fs, q) : \E x \in df.rows : Carries(d, x)
              /\ \A x \in df.rows : x.p = q => \E d \in StoredIn(fs, q) : Carries(d, x)
              /\ Cardinality(StoredIn(fs, q)) = Cardinality({x \in df.rows : x.p = q})

\* C9 witness: the overwritten partition held a row the incoming data does
\* not carry, and another partition was on disk.
C9_Witness ==
    /\ Done /\ PartitionOverwriteCall /\ OverReadableDataset /\ fs0.node = "dir"
    /\ schemas_match
    /\ \E q \in partitions_affected(df) :
          \E r \in StoredIn(fs0, q) : \A x \in df.rows : ~Carries(r, x)
    /\ \E q \in Parts : partition_exists(fs0, q) /\ q \notin partitions_affected(df)

\* C11: when nothing is at the target path the call, in any mode, deletes
\* nothing, runs neither reconciliation nor a merge, and leaves exactly the
\* incoming rows on disk.
C11_AbsentPathHoldsIncomingRows ==
    (Done /\ ~exists(fs0)) =>
        /\ result = "ok"
        /\ ~has_existing_data
        /\ \A i \in DOMAIN log :
              ~IsDeletion(log[i]) /\ log[i].op \notin {"collect_schema", "collect"}
        /\ handed = df
        /\ fs.rows = df.rows

\* The call is an append: neither overwrite_level nor upsert_key is given.
AppendCall == overwrite_level = "none" /\ upsert_key = <<>>

\* C12: in append mode over a readable dataset the frame handed to the
\* sanitizer and the materializer is the incoming frame as the reconciler
\* adjusted it, and the call deletes nothing.
C12_AppendHandsOverAdjustedFrame ==
    (Done /\ AppendCall /\ OverReadableDataset) =>
        /\ df_to_write = lazy_df
        /\ handed = lazy_df
        /\ \A i \in DOMAIN log : ~IsDeletion(log[i])

\* C13: when neither the target path nor its parent directory exists, the
\* probe step creates the parent directory and does not raise: once the
\* probe is over the directory that is to hold the path exists.
C13_ProbeCreatesParentDirectory ==
    (pc # "idle" /\ ~exists(fs0) /\ ~fs0.parent) =>
        /\ result # "FileExistsError"
        /\ pc = "write" => fs.parent

(***************************************************************************)
(* Claims about the sanitizer (SpecSanitize).                              *)
(***************************************************************************)

\* A dtype is empty iff it is a struct with zero fields, a struct all of
\* whose fields are empty, or a list whose element type is empty.
RECURSIVE IsEmptyType(_)
IsEmptyType(t) ==
    \/ t.k = "Struct" /\ \A i \in 1..Len(t.sub) : IsEmptyType(t.sub[i][2])
    \/ t.k = "List" /\ IsEmptyType(t.sub[1][2])

ColumnNames(cols) == [i \in 1..Len(cols) |-> cols[i][1]]

\* C3: after the sanitizer has run, the frame handed to the materializer has
\* no column of empty type, neither in its schema nor in its data.
C3_NoEmptyColumnHandedOver ==
    sanPasses >= 1 =>
        /\ \A i \in 1..Len(sanDf.schema) : ~IsEmptyType(sanDf.schema[i][2])
        /\ ColumnNames(sanDf.data) = ColumnNames(sanDf.schema)

\* C10: the sanitizer is idempotent: applied to the result of a previous
\* application it returns the same schema and the same data, and finds no
\* column to recast or to remove.
C10_SanitizerIdempotent ==
    sanPasses >= 2 =>
        /\ sanDf.schema = sanPrev.schema
        /\ sanDf.data = sanPrev.data
        /\ columns_to_transform(sanPrev) = {}

\* C10 witness: a second application, on a frame the first one recast.
C10_Witness ==
    /\ sanPasses = 2
    /\ sanPrev # sanIn
    /\ sanPrev.schema[2][2].k \in {"Struct", "List"}

====
